---------------------------- MODULE Spec2Model ----------------------------
(***************************************************************************)
(* A model of qdoc's QML documentation visitor (qmlvisitor.cpp):           *)
(*   - QmlDocVisitor::precedingComment, the comment locator;               *)
(*   - QmlDocVisitor::applyDocumentation / applyMetacommands, the binder;  *)
(*   - the visit()/endVisit() handlers, the traversal state machine;       *)
(*   - QmlSignatureParser, the declaration-grammar parser.                 *)
(*                                                                         *)
(* The source file is a row of slots.  A slot holds either one comment or  *)
(* one token that starts or ends a construct.  Slot s begins at offset     *)
(* Base(s); a comment's location is that of its body, which follows the    *)
(* two-character opening delimiter (line 62 reads the character before     *)
(* the body to tell a block comment from a line comment).                  *)
(***************************************************************************)
EXTENDS Integers, Sequences, FiniteSets, TLC

\* ------------------------------------------------------------ bounds
MaxSlots == 5
MaxComments == 2
MaxTopics == 1
MaxSigLen == 4
MaxCommands == 2
MaxParams == 2

VARIABLES
    m_document,       \* slot -> "code" or the opening of the comment it holds
    comments,         \* m_engine->comments(): the comments in source order
    pos,              \* the next slot the depth-first walk reads
    stack,            \* the constructs entered and not yet left
    m_lastEndOffset,
    m_usedComments,
    m_nestingLevel,
    m_current,        \* node id of the current scope; Root is the namespace root
    m_importList,     \* the imports read and not yet handed to a type
    nodes,            \* the documentation-node repository, indexed by node id
    hasRecursionDepthError,
    visitors,         \* file -> where its visitor stands in applyDocumentation
    lastOp,           \* history: the handler that ran last and what it saw
    binds,            \* history: every (comment, construct) pair bound so far
    closed            \* history: the spans of the constructs already left

walkVars == <<m_document, comments, pos, stack, m_lastEndOffset, m_usedComments,
              m_nestingLevel, m_current, m_importList, nodes, hasRecursionDepthError,
              visitors, lastOp, binds, closed>>

\* ------------------------------------------------------------ the document
Slots == 1..MaxSlots

Base(s) == 5 * (s - 1)

\* "/*!" and "/**" open documentation comments, "/*x" a plain block comment,
\* "//!" a line comment whose body starts with the marker.
CommentStyles == {"/*!", "/**", "/*x", "//!"}

PrevChar(style) == IF style = "//!" THEN "/" ELSE "*"

FirstChar(style) ==
    CASE style = "/*!" -> "!"
      [] style = "/**" -> "*"
      [] style = "/*x" -> "x"
      [] style = "//!" -> "!"

\* QQmlJS::SourceLocation of the comment held by slot s.
CommentLoc(s, style) ==
    [begin |-> Base(s) + 2, end |-> Base(s) + 3,
     prev |-> PrevChar(style), first |-> FirstChar(style)]

\* QQmlJS::SourceLocation(): the invalid location.
NoLoc == [begin |-> 0, end |-> 0, prev |-> "", first |-> ""]

IsValid(loc) == loc # NoLoc

\* The comment list the lexer makes of a document: its comments in source order.
CommentsOf(document) ==
    LET slots == SelectSeq([s \in Slots |-> s], LAMBDA s : document[s] # "code")
    IN  [i \in 1..Len(slots) |-> CommentLoc(slots[i], document[slots[i]])]

Layouts ==
    UNION {{[s \in Slots |-> IF s \in S THEN f[s] ELSE "code"] : f \in [S -> CommentStyles]} :
              S \in {X \in SUBSET Slots : Cardinality(X) <= MaxComments}}

\* The slot of the next token at or after slot p (0: none is left).
NextCodeSlot(p) ==
    LET S == {s \in Slots : s >= p /\ m_document[s] = "code"}
    IN  IF S = {} THEN 0 ELSE CHOOSE s \in S : \A t \in S : s <= t

\* ------------------------------------------------------------ precedingComment
ReachedPrecedingStructure(loc) == loc.begin <= m_lastEndOffset

\* Mutant: the used-comment set is never consulted.
PreviouslyUsedNever(loc) == FALSE

PreviouslyUsed(loc) == loc.begin \in m_usedComments

InWindow(loc, offset) == loc.begin > m_lastEndOffset /\ loc.end < offset

\* Mutant: any comment whose body starts with a marker, a line comment too.
IsDocCommentAnyStyle(loc) == loc.first = "!" \/ loc.first = "*"

IsDocComment(loc) == loc.prev = "*" /\ (loc.first = "!" \/ loc.first = "*")

RECURSIVE ScanComments(_, _)
ScanComments(i, offset) ==
    IF i = 0 THEN NoLoc
    ELSE LET loc == comments[i]
         IN  IF ReachedPrecedingStructure(loc) THEN NoLoc
             ELSE IF PreviouslyUsed(loc) THEN NoLoc
             ELSE IF InWindow(loc, offset) /\ IsDocComment(loc) THEN loc
             ELSE ScanComments(i - 1, offset)

\* Mutant: the scan takes no notice of m_lastEndOffset.
RECURSIVE ScanIgnoringCursor(_, _)
ScanIgnoringCursor(i, offset) ==
    IF i = 0 THEN NoLoc
    ELSE LET loc == comments[i]
         IN  IF PreviouslyUsed(loc) THEN NoLoc
             ELSE IF loc.end < offset /\ IsDocComment(loc) THEN loc
             ELSE ScanIgnoringCursor(i - 1, offset)

PrecedingCommentIgnoringCursor(offset) == ScanIgnoringCursor(Len(comments), offset)

PrecedingComment(offset) == ScanComments(Len(comments), offset)

\* ------------------------------------------------------------ nodes
Root == 0
m_name == "T"

IsNamespace(ns, n) == n = Root
IsQmlType(ns, n) == n # Root /\ ns[n].kind = "QmlType"
IsQmlProperty(ns, n) == n # Root /\ ns[n].kind = "QmlProperty"
IsFunction(ns, n) == n # Root /\ ns[n].kind = "Function"

NewNode(kind, parent, name) ==
    [kind |-> kind, parent |-> parent, name |-> name, attached |-> FALSE,
     dataType |-> "", readOnly |-> FALSE, isDefault |-> FALSE, isList |-> FALSE,
     required |-> FALSE, doc |-> 0, location |-> 0, module |-> "",
     baseName |-> "", title |-> "", importList |-> <<>>,
     metaness |-> "", returnType |-> <<>>, params |-> <<>>,
     abstract |-> FALSE, deprecated |-> "", status |-> "Active", since |-> "",
     wrapper |-> FALSE, defaultValue |-> "", enumNode |-> "", groups |-> {}]

NewQmlTypeNode(parent, name) == NewNode("QmlType", parent, name)

NewQmlPropertyNode(parent, name, type, attached) ==
    [NewNode("QmlProperty", parent, name) EXCEPT !.dataType = type, !.attached = attached]

NewFunctionNode(metaness, parent, name) ==
    [NewNode("Function", parent, name) EXCEPT !.metaness = metaness]

MinOf(S) == IF S = {} THEN 0 ELSE CHOOSE x \in S : \A y \in S : x <= y

\* Aggregate::hasQmlProperty(name): the QML property of that name under parent.
HasQmlProperty(ns, parent, name) ==
    MinOf({n \in 1..Len(ns) : ns[n].kind = "QmlProperty" /\ ns[n].parent = parent
                              /\ ns[n].name = name})

\* Aggregate::hasQmlProperty(name, attached).
HasQmlPropertyAttached(ns, parent, name, attached) ==
    MinOf({n \in 1..Len(ns) : ns[n].kind = "QmlProperty" /\ ns[n].parent = parent
                              /\ ns[n].name = name /\ ns[n].attached = attached})

\* QDocDatabase::findQmlTypeInPrimaryTree(qmid, name).
FindQmlTypeInPrimaryTree(ns, qmid, name) ==
    MinOf({n \in 1..Len(ns) : ns[n].kind = "QmlType" /\ ns[n].name = name
                              /\ ns[n].module = qmid})

\* ------------------------------------------------------------ the parsed comment
\* Doc: the topics of the comment in order and its metacommands in the order
\* the QSet of their names iterates.  A topic carries what
\* QmlPropertyArguments::parse made of its arguments.
PropertyTopics == {"qmlproperty", "qmlattachedproperty"}

EndsWithProperty(topic) == topic \in PropertyTopics

ContainsAttached(topic) == topic = "qmlattachedproperty"

EndsWithMethod(topic) == topic \in {"qmlmethod", "qmlattachedmethod"}

Topics ==
    [topic : PropertyTopics, parsed : {TRUE}, name : {"a", "b"}, type : {"var"},
     isList : {FALSE}]
    \cup {[topic |-> "qmlproperty", parsed |-> FALSE, name |-> "", type |-> "",
           isList |-> FALSE]}

\* A metacommand of a comment: its name and the first member of each of
\* its arguments.
Command(name, args) == [name |-> name, args |-> args]

Commands == {Command("qmlreadonly", <<>>)}

SeqsUpTo(S, n) == UNION {[1..k -> S] : k \in 0..n}

NoRepeat(q) == \A i, j \in 1..Len(q) : i # j => q[i].name # q[j].name

Docs == [topics : SeqsUpTo(Topics, MaxTopics),
         commands : {q \in SeqsUpTo(Commands, Cardinality(Commands)) : NoRepeat(q)}]

NoDoc == [topics |-> <<>>, commands |-> <<>>]

\* The metacommands the comments of the interpreter's walk carry, and the
\* comments: no topic, at most MaxCommands metacommands in any order.
MetaCommands ==
    {Command(name, <<>>) : name \in {"abstract", "qmlabstract", "qmldefault",
                                     "qmlreadonly", "qmlrequired", "internal",
                                     "obsolete", "preliminary", "wrapper", "relates"}}
    \cup {Command("deprecated", <<"">>), Command("inqmlmodule", <<"M">>),
          Command("qmlinherits", <<"T">>), Command("qmlinherits", <<"a">>),
          Command("qmlinherits", <<"Base">>),
          Command("default", <<"">>), Command("default", <<"v">>),
          Command("qmlenumeratorsfrom", <<"E">>), Command("qmlenumeratorsfrom", <<"X">>),
          Command("ingroup", <<"g">>), Command("since", <<"6.0">>)}

MetaDocs == [topics : {<<>>},
             commands : {q \in SeqsUpTo(MetaCommands, MaxCommands) : NoRepeat(q)}]

\* What a comment holds decides no step of the walk itself (which comment is
\* bound, the cursor, the nesting level, the scope), only the nodes' fields:
\* the walk of whole files reads comments with no topic and no metacommand,
\* and the binder is walked with every Doc over the files of BindLayouts.
WalkDocs == {NoDoc}

\* What reading a QmlPropertyNode's flags through a pointer to a node of
\* another class yields: any value.
Garbage == [readOnly : BOOLEAN, isDefault : BOOLEAN]

NoGarbage == [readOnly |-> FALSE, isDefault |-> FALSE]

\* ------------------------------------------------------------ applyMetacommands
\* m_topics: the names of the topic commands.
m_topics == {"qmlproperty", "qmlattachedproperty", "qmlmethod", "qmlattachedmethod",
             "qmlsignal"}

\* The C++ enumerations QmlPropertyNode::setEnumNode finds.
Enumerations == {"E"}

\* doc.location().warning(...): the message, by its kind and the name it carries.
Warning(kind, arg) == [kind |-> kind, arg |-> arg]

Warn(d, kind, arg) == [d EXCEPT !.warnings = Append(@, Warning(kind, arg))]

\* Mutant: a type that names itself as its base gets the base all the same.
InheritsWithoutSelfTest(d, n, command) ==
    IF IsQmlType(d.nodes, n) THEN [d EXCEPT !.nodes[n].baseName = command.args[1]]
    ELSE d

\* command == COMMAND_QMLINHERITS
Inherits(d, n, command) ==
    IF d.nodes[n].name = command.args[1]
    THEN Warn(d, "tries to inherit itself", command.args[1])
    ELSE IF IsQmlType(d.nodes, n)
         THEN [d EXCEPT !.nodes[n].baseName = command.args[1]]
         ELSE d

\* command == COMMAND_DEFAULT
Default(d, n, command) ==
    IF ~IsQmlProperty(d.nodes, n) THEN Warn(d, "Ignored, applies only to", command.name)
    ELSE IF command.args = <<>> \/ command.args[1] = ""
         THEN Warn(d, "Expected an argument for", command.name)
         ELSE [d EXCEPT !.nodes[n].defaultValue = command.args[1]]

\* command == COMMAND_QMLENUMERATORSFROM
EnumeratorsFrom(d, n, command) ==
    IF ~IsQmlProperty(d.nodes, n) THEN Warn(d, "Ignored, applies only to", command.name)
    ELSE IF command.args[1] \notin Enumerations
         THEN Warn(d, "Failed to find C++ enumeration", command.name)
         ELSE [d EXCEPT !.nodes[n].enumNode = command.args[1]]

\* Mutant: a status, once set, is kept.
SetStatusOnce(d, n, status) ==
    IF d.nodes[n].status = "Active" THEN [d EXCEPT !.nodes[n].status = status] ELSE d

\* node->setStatus(status)
SetStatus(d, n, status) == [d EXCEPT !.nodes[n].status = status]

\* One turn of the loop over the metacommands: the branch of command, on node
\* n of the repository d.nodes with the warnings given so far.
ApplyCommand(d, n, command) ==
    CASE command.name \in {"qmlabstract", "abstract"} ->
           IF IsQmlType(d.nodes, n) THEN [d EXCEPT !.nodes[n].abstract = TRUE] ELSE d
      [] command.name = "deprecated" -> [d EXCEPT !.nodes[n].deprecated = command.args[1]]
      [] command.name = "inqmlmodule" -> [d EXCEPT !.nodes[n].module = command.args[1]]
      [] command.name = "qmlinherits" -> Inherits(d, n, command)
      [] command.name = "default" -> Default(d, n, command)
      [] command.name = "qmldefault" -> [d EXCEPT !.nodes[n].isDefault = TRUE]
      [] command.name = "qmlenumeratorsfrom" -> EnumeratorsFrom(d, n, command)
      [] command.name = "qmlreadonly" -> [d EXCEPT !.nodes[n].readOnly = TRUE]
      [] command.name = "qmlrequired" ->
           IF IsQmlProperty(d.nodes, n) THEN [d EXCEPT !.nodes[n].required = TRUE] ELSE d
      [] command.name = "ingroup" /\ command.args # <<>> ->
           [d EXCEPT !.nodes[n].groups =
                        @ \cup {command.args[i] : i \in 1..Len(command.args)}]
      [] command.name = "internal" -> SetStatus(d, n, "Internal")
      [] command.name = "obsolete" -> SetStatus(d, n, "Deprecated")
      [] command.name = "preliminary" -> SetStatus(d, n, "Preliminary")
      [] command.name = "since" -> [d EXCEPT !.nodes[n].since = command.args[1]]
      [] command.name = "wrapper" -> [d EXCEPT !.nodes[n].wrapper = TRUE]
      [] OTHER -> Warn(d, "is ignored in QML files", command.name)

\* metacommands.subtract(m_topics)
SubtractTopics(commands) == SelectSeq(commands, LAMBDA c : c.name \notin m_topics)

RECURSIVE ApplyMetacommandsFrom(_, _, _, _)
ApplyMetacommandsFrom(d, n, commands, i) ==
    IF i > Len(commands) THEN d
    ELSE ApplyMetacommandsFrom(ApplyCommand(d, n, commands[i]), n, commands, i + 1)

\* applyMetacommands(loc, node, doc)
ApplyMetacommands(d, n, commands) ==
    ApplyMetacommandsFrom(d, n, SubtractTopics(commands), 1)

\* for (const auto &node : nodes) applyMetacommands(loc, node, doc);
RECURSIVE ApplyMetacommandsToAll(_, _, _, _)
ApplyMetacommandsToAll(d, list, commands, k) ==
    IF k > Len(list) THEN d
    ELSE ApplyMetacommandsToAll(ApplyMetacommands(d, list[k], commands),
                                list, commands, k + 1)

\* ------------------------------------------------------------ QmlSignatureParser
\* A signature is the text of a topic's arguments, held as the row of its
\* lexemes with " " for a run of blanks.  The text a CodeChunk or a QString
\* collects is held the same way, as the row of the lexemes appended to it.
Blank == " "

\* Tokenizer::getToken: the kind of token a lexeme is read as.
TokenKind(lexeme) ==
    CASE lexeme \in {"void", "int", "char", "double", "signed", "unsigned", "short",
                     "long", "const"} -> lexeme
      [] lexeme = "__int64" -> "int64"
      [] lexeme = "..." -> "Ellipsis"
      [] lexeme = "::" -> "Gulbrandsen"
      [] lexeme = "&" -> "Ampersand"
      [] lexeme = "*" -> "Aster"
      [] lexeme = "^" -> "Caret"
      [] lexeme = "(" -> "LeftParen"
      [] lexeme = ")" -> "RightParen"
      [] lexeme = "[" -> "LeftBracket"
      [] lexeme = "]" -> "RightBracket"
      [] lexeme = "," -> "Comma"
      [] lexeme = "=" -> "Equal"
      [] lexeme \in {"0", "1", "2"} -> "Number"
      [] OTHER -> "Ident"

RECURSIVE SkipBlanks(_, _)
SkipBlanks(signature, i) ==
    IF i <= Len(signature) /\ signature[i] = Blank THEN SkipBlanks(signature, i + 1)
    ELSE i

\* The parser over signature before its first token is read.
NewParser(signature) ==
    [signature |-> signature, next |-> 1, tok |-> "None", lexeme |-> "",
     previousLexeme |-> "", parenDepth |-> 0, bracketDepth |-> 0]

\* readToken(): tok_ = tokenizer_->getToken().  The tokenizer counts the
\* parentheses and brackets it has read.
ReadToken(p) ==
    LET i == SkipBlanks(p.signature, p.next)
    IN  IF i > Len(p.signature)
        THEN [p EXCEPT !.next = i, !.tok = "Eoi", !.lexeme = "",
                       !.previousLexeme = p.lexeme]
        ELSE LET l == p.signature[i]
             IN  [p EXCEPT !.next = i + 1, !.tok = TokenKind(l), !.lexeme = l,
                           !.previousLexeme = p.lexeme,
                           !.parenDepth = CASE l = "(" -> @ + 1 [] l = ")" -> @ - 1
                                            [] OTHER -> @,
                           !.bracketDepth = CASE l = "[" -> @ + 1 [] l = "]" -> @ - 1
                                              [] OTHER -> @]

\* What a match has read so far: whether it still holds, the parser, and the
\* type, variable name and default value collected.
Matched(p, type) ==
    [ok |-> TRUE, p |-> p, type |-> type, var |-> <<>>, defaultValue |-> <<>>]

\* match(target) succeeded on the lexeme that is appended to the type.
MatchAppend(r) ==
    [r EXCEPT !.p = ReadToken(r.p), !.type = Append(r.type, r.p.lexeme)]

\* while (match(Tok_signed) || ... || match(Tok_int64)) type->append(previousLexeme())
RECURSIVE MatchSizeKeywords(_)
MatchSizeKeywords(r) ==
    IF r.p.tok \in {"signed", "unsigned", "short", "long", "int64"}
    THEN MatchSizeKeywords(MatchAppend(r))
    ELSE r

\* The name or keyword of the type, after size keywords were read (not virgin)
\* or not.
MatchBaseType(r, virgin) ==
    IF virgin
    THEN IF r.p.tok \in {"Ident", "void", "int", "char", "double", "Ellipsis"}
         THEN MatchAppend(r)
         ELSE [r EXCEPT !.ok = FALSE]
    ELSE IF r.p.tok \in {"int", "char", "double"} THEN MatchAppend(r) ELSE r

\* for (;;): Alpha::Beta::...::Omega, or the keywords of a built-in type.
RECURSIVE MatchTypeChain(_)
RECURSIVE MatchScope(_)
MatchTypeChain(r) ==
    IF r.p.tok # "Ident" /\ r.p.tok \in {"signed", "unsigned", "short", "long", "int64"}
    THEN MatchScope(MatchBaseType(MatchSizeKeywords(r), FALSE))
    ELSE MatchScope(MatchBaseType(r, TRUE))

\* if (match(Tok_Gulbrandsen)) type->append(previousLexeme()); else break;
MatchScope(r) ==
    IF r.ok /\ r.p.tok = "Gulbrandsen" THEN MatchTypeChain(MatchAppend(r)) ELSE r

\* while (match(Tok_Ampersand) || match(Tok_Aster) || match(Tok_const) || match(Tok_Caret))
RECURSIVE MatchQualifiers(_)
MatchQualifiers(r) ==
    IF r.ok /\ r.p.tok \in {"Ampersand", "Aster", "const", "Caret"}
    THEN MatchQualifiers(MatchAppend(r))
    ELSE r

\* if ((var != nullptr) && match(Tok_Ident)) *var = previousLexeme();
MatchVar(r, hasVar) ==
    IF r.ok /\ hasVar /\ r.p.tok = "Ident"
    THEN [r EXCEPT !.p = ReadToken(r.p), !.var = <<r.p.lexeme>>]
    ELSE r

\* The array brackets after the name, down to the depth they started at.
RECURSIVE MatchBrackets(_, _)
MatchBrackets(r, bracketDepth0) ==
    IF (r.p.bracketDepth >= bracketDepth0 /\ r.p.tok # "Eoi") \/ r.p.tok = "RightBracket"
    THEN MatchBrackets([r EXCEPT !.p = ReadToken(r.p), !.type = Append(r.type, r.p.lexeme)],
                       bracketDepth0)
    ELSE r

MatchArrayBrackets(r) ==
    IF r.ok /\ r.p.tok = "LeftBracket" THEN MatchBrackets(r, r.p.bracketDepth) ELSE r

\* matchTypeAndName(type, var); hasVar: var is not nullptr.
MatchTypeAndName(p, hasVar) ==
    MatchArrayBrackets(MatchVar(MatchQualifiers(MatchTypeChain(Matched(p, <<>>))), hasVar))

\* Mutant: a parameter with no name keeps its type and stays unnamed.
NameFallbackNone(type, name) == [type |-> type, name |-> name]

\* if (name.isEmpty()) { name = type.toString(); type.clear(); }
NameFallback(type, name) ==
    IF name = <<>> THEN [type |-> <<>>, name |-> type]
    ELSE [type |-> type, name |-> name]

\* The default value after '=': up to the comma or the parenthesis that ends
\* the parameter.
RECURSIVE MatchDefaultValue(_, _)
MatchDefaultValue(r, parenDepth0) ==
    IF /\ r.p.parenDepth >= parenDepth0
       /\ (r.p.tok # "Comma" \/ r.p.parenDepth > parenDepth0)
       /\ r.p.tok # "Eoi"
    THEN MatchDefaultValue([r EXCEPT !.p = ReadToken(r.p),
                                     !.defaultValue = Append(r.defaultValue, r.p.lexeme)],
                           parenDepth0)
    ELSE r

\* The parser stands right after the '=' of a parameter.
MatchDefaultFrom(r) == MatchDefaultValue(r, r.p.parenDepth)

\* if (match(Tok_Equal)) { ... }
MatchDefault(r) ==
    IF r.ok /\ r.p.tok = "Equal" THEN MatchDefaultFrom([r EXCEPT !.p = ReadToken(r.p)])
    ELSE r

\* func_->parameters().append(type.toString(), name, defaultValue.toString())
AppendParameter(r, params) ==
    IF ~r.ok THEN [ok |-> FALSE, p |-> r.p, params |-> params]
    ELSE [ok |-> TRUE, p |-> r.p,
          params |-> Append(params, [type |-> NameFallback(r.type, r.var).type,
                                     name |-> NameFallback(r.type, r.var).name,
                                     defaultValue |-> r.defaultValue])]

\* matchParameter() on the parameter list params of func_.
MatchParameter(p, params) ==
    AppendParameter(MatchDefault(MatchTypeAndName(p, TRUE)), params)

\* do { if (!matchParameter()) return false; } while (match(Tok_Comma));
RECURSIVE MatchParameters(_, _)
RECURSIVE NextParameter(_)
MatchParameters(p, params) == NextParameter(MatchParameter(p, params))

NextParameter(r) ==
    IF r.ok /\ r.p.tok = "Comma" THEN MatchParameters(ReadToken(r.p), r.params) ELSE r

\* while (match(Tok_Ident)): the segments of a qualified name, less the last.
RECURSIVE MatchNames(_)
RECURSIVE MatchNameScope(_)
MatchNames(r) ==
    IF r.p.tok = "Ident"
    THEN MatchNameScope([r EXCEPT !.p = ReadToken(r.p), !.names = Append(r.names, r.p.lexeme)])
    ELSE r

\* if (!match(Tok_Gulbrandsen)) { names_.pop_back(); break; }
MatchNameScope(r) ==
    IF r.p.tok = "Gulbrandsen" THEN MatchNames([r EXCEPT !.p = ReadToken(r.p)])
    ELSE [r EXCEPT !.names = SubSeq(r.names, 1, Len(r.names) - 1)]

RECURSIVE StrLen(_, _)
StrLen(signature, n) ==
    IF n = 0 THEN 0 ELSE StrLen(signature, n - 1) + Len(signature[n])

\* signature_.indexOf(ch) for a character that is a lexeme of its own.
IndexOf(signature, ch) ==
    IF \A i \in 1..Len(signature) : signature[i] # ch THEN -1
    ELSE StrLen(signature, (CHOOSE i \in 1..Len(signature) :
                               /\ signature[i] = ch
                               /\ \A j \in 1..(i - 1) : signature[j] # ch) - 1)

\* (firstBlank > 0) && (leftParen - firstBlank) > 1
HasReturnType(signature) ==
    /\ IndexOf(signature, Blank) > 0
    /\ IndexOf(signature, "(") - IndexOf(signature, Blank) > 1

MatchReturnType(p) ==
    IF HasReturnType(p.signature) THEN MatchTypeAndName(p, FALSE) ELSE Matched(p, <<>>)

\* The names before the parameter list; names_ is not read again.
MatchFunctionName(r) ==
    IF r.ok THEN [r EXCEPT !.p = MatchNames([p |-> r.p, names |-> <<>>]).p] ELSE r

\* if (tok_ != Tok_RightParen) { func_->parameters().clear(); do ... }
MatchParameterList(p, params) ==
    IF p.tok # "RightParen" THEN MatchParameters(p, <<>>)
    ELSE [ok |-> TRUE, p |-> p, params |-> params]

\* if (!match(Tok_RightParen)) return false; return true;
MatchEnd(listed, fn) ==
    [ok |-> listed.ok /\ listed.p.tok = "RightParen",
     fn |-> [fn EXCEPT !.params = listed.params]]

\* The parameter list of fn, from the '(' on.
MatchFunctionFrom(r, fn) ==
    MatchEnd(MatchParameterList(ReadToken(r.p), fn.params), fn)

\* if (tok_ != Tok_LeftParen) return false; readToken();
\* func_->setLocation(location_); func_->setReturnType(returnType.toString());
MatchFunction(r, fn, location_) ==
    IF ~r.ok \/ r.p.tok # "LeftParen" THEN [ok |-> FALSE, fn |-> fn]
    ELSE MatchFunctionFrom(r, [fn EXCEPT !.location = location_, !.returnType = r.type])

\* matchFunctionDecl() on the function node fn, the first token read.
MatchFunctionDecl(p, fn, location_) ==
    MatchFunction(MatchFunctionName(MatchReturnType(p)), fn, location_)

\* QmlSignatureParser(func, signature, loc): readToken(); matchFunctionDecl();
QmlSignatureParser(fn, signature, location_) ==
    MatchFunctionDecl(ReadToken(NewParser(signature)), fn, location_)

\* The signatures the comments of the parser's walk carry: two written out,
\* and every row of at most MaxSigLen lexemes of Lexemes that a text can lex to
\* (no blank first, last or after a blank, no word right after a word).
\* "void foo(int a, const Bar &b = Bar(1,2))"
SigConstDefault ==
    <<"void", Blank, "foo", "(", "int", Blank, "a", ",", Blank, "const", Blank, "Bar",
      Blank, "&", "b", Blank, "=", Blank, "Bar", "(", "1", ",", "2", ")", ")">>

\* "bar(x)"
SigBare == <<"bar", "(", "x", ")">>

Lexemes == {"foo", "int", Blank, "(", ")", ",", "="}

Words == {"foo", "int"}

WellLexed(q) ==
    /\ q # <<>> => q[1] # Blank /\ q[Len(q)] # Blank
    /\ \A i \in 1..(Len(q) - 1) : /\ ~(q[i] = Blank /\ q[i + 1] = Blank)
                                  /\ ~(q[i] \in Words /\ q[i + 1] \in Words)

\* The default expressions a written parameter may carry (<<>>: none): "1",
\* "(1)" and "Bar(1,2)".
DefaultExprs == {<<>>, <<"1">>, <<"(", "1", ")">>, <<"Bar", "(", "1", ",", "2", ")">>}

ParameterNames == <<"a", "b", "c">>

\* The parameter lists of at most MaxParams parameters, the i-th one named
\* ParameterNames[i], typed int or not, with a default expression or none.
WrittenParameters ==
    UNION {[1..n -> [type : {<<>>, <<"int">>}, defaultValue : DefaultExprs]] :
             n \in 0..MaxParams}

\* What an author writes after \qmlmethod or \qmlsignal: a return type or
\* none, the name foo and a parameter list.
WrittenSignatures == [returnType : {<<>>, <<"int">>}, params : WrittenParameters]

\* The text of the i-th written parameter, as lexemes.
RenderParameter(w, i) ==
    (IF w.params[i].type = <<>> THEN <<>> ELSE w.params[i].type \o <<Blank>>)
    \o <<ParameterNames[i]>>
    \o (IF w.params[i].defaultValue = <<>> THEN <<>>
        ELSE <<Blank, "=", Blank>> \o w.params[i].defaultValue)

RECURSIVE RenderParameters(_, _)
RenderParameters(w, i) ==
    IF i > Len(w.params) THEN <<>>
    ELSE (IF i > 1 THEN <<",", Blank>> ELSE <<>>)
         \o RenderParameter(w, i) \o RenderParameters(w, i + 1)

\* The text of a written signature, as lexemes.
Render(w) ==
    (IF w.returnType = <<>> THEN <<>> ELSE w.returnType \o <<Blank>>)
    \o <<"foo", "(">> \o RenderParameters(w, 1) \o <<")">>

Signatures ==
    {SigConstDefault, SigBare}
    \cup {q \in SeqsUpTo(Lexemes, MaxSigLen) : WellLexed(q)}
    \cup {Render(w) : w \in WrittenSignatures}

SignatureTopics == [topic : {"qmlmethod", "qmlsignal"}, args : Signatures]

SignatureDocs == [topics : {<<t>> : t \in SignatureTopics}, commands : {<<>>}]

\* ------------------------------------------------------------ applyDocumentation
\* Mutant: the sibling takes the primary node's flag whatever its topic.
SiblingReadOnlyCopied(primaryReadOnly, isAttached) == primaryReadOnly

\* isReadOnly() && !isAttached
SiblingReadOnly(primaryReadOnly, isAttached) == primaryReadOnly /\ ~isAttached

\* One property topic that names another property than the primary node.
SiblingProperty(r, node, parent, t, loc, garbage) ==
    LET isAttached == ContainsAttached(t.topic)
        found == HasQmlPropertyAttached(r.nodes, parent, t.name, isAttached)
        ns1 == IF found = 0
               THEN Append(r.nodes, NewQmlPropertyNode(parent, t.name, t.type, isAttached))
               ELSE r.nodes
        n == IF found = 0 THEN Len(ns1) ELSE found
        primary == IF IsQmlProperty(r.nodes, node)
                   THEN [readOnly |-> r.nodes[node].readOnly,
                         isDefault |-> r.nodes[node].isDefault]
                   ELSE garbage
    IN  [nodes |-> [ns1 EXCEPT ![n].isList = t.isList,
                               ![n].location = loc.begin,
                               ![n].doc = loc.begin,
                               ![n].readOnly = SiblingReadOnly(primary.readOnly, isAttached),
                               ![n].isDefault = IF primary.isDefault THEN TRUE ELSE @],
         list |-> Append(r.list, n)]

ApplyTopic(r, node, parent, t, loc, garbage) ==
    IF EndsWithProperty(t.topic)
    THEN IF t.parsed
         THEN IF t.name = r.nodes[node].name
              THEN [r EXCEPT !.nodes[node].dataType = t.type]
              ELSE SiblingProperty(r, node, parent, t, loc, garbage)
         ELSE r
    ELSE IF EndsWithMethod(t.topic) \/ t.topic = "qmlsignal"
         THEN IF IsFunction(r.nodes, node)
              THEN [r EXCEPT !.nodes[node] = QmlSignatureParser(@, t.args, loc.begin).fn]
              ELSE r
         ELSE r

RECURSIVE ApplyTopics(_, _, _, _, _, _, _)
ApplyTopics(r, node, parent, topics, i, loc, garbage) ==
    IF i > Len(topics) THEN r
    ELSE ApplyTopics(ApplyTopic(r, node, parent, topics[i], loc, garbage),
                     node, parent, topics, i + 1, loc, garbage)

\* Mutant: the type is looked up in no module, whatever the comment says.
QmidNone(doc) == ""

\* qmid: the first argument of the comment's \inqmlmodule, if it has one.
Qmid(doc) ==
    IF \E i \in 1..Len(doc.commands) : doc.commands[i].name = "inqmlmodule"
    THEN doc.commands[CHOOSE i \in 1..Len(doc.commands) :
                         doc.commands[i].name = "inqmlmodule"].args[1]
    ELSE ""

\* Mutant: the node found without a comment is returned with no location.
UndocumentedUnlocated(offset, node, ns) ==
    LET ns1 == IF node = 0 THEN Append(ns, NewQmlTypeNode(m_current, m_name)) ELSE ns
        n == IF node = 0 THEN Len(ns1) ELSE node
    IN  [nodes |-> ns1, node |-> n, used |-> m_usedComments, loc |-> NoLoc,
         warnings |-> <<>>]

\* if (!loc.isValid()): no preceding comment; a new QML type if no node was
\* given, and the location of the construct.
Undocumented(offset, node, ns) ==
    LET ns1 == IF node = 0 THEN Append(ns, NewQmlTypeNode(m_current, m_name)) ELSE ns
        n == IF node = 0 THEN Len(ns1) ELSE node
    IN  [nodes |-> [ns1 EXCEPT ![n].location = offset], node |-> n,
         used |-> m_usedComments, loc |-> NoLoc, warnings |-> <<>>]

\* applyDocumentation(location, node) on the repository ns (node 0: nullptr).
\* The result: the repository, the node returned, the used-comment set and the
\* comment that was bound (NoLoc: none).
ApplyDocumentation(offset, node, ns, doc, garbage) ==
    LET loc == PrecedingComment(offset)
    IN  IF ~IsValid(loc)
        THEN Undocumented(offset, node, ns)
        ELSE LET found == IF node = 0
                          THEN FindQmlTypeInPrimaryTree(ns, Qmid(doc), m_name)
                          ELSE node
                 ns1 == IF found = 0
                        THEN Append(ns, [NewQmlTypeNode(m_current, m_name)
                                           EXCEPT !.location = loc.begin])
                        ELSE ns
                 n == IF found = 0 THEN Len(ns1) ELSE found
                 parent == ns1[n].parent
                 ns2 == [ns1 EXCEPT ![n].doc = loc.begin]
                 r == ApplyTopics([nodes |-> ns2, list |-> <<n>>], n, parent,
                                  doc.topics, 1, loc, garbage)
                 d == ApplyMetacommandsToAll([nodes |-> r.nodes, warnings |-> <<>>],
                                             r.list, doc.commands, 1)
             IN  [nodes |-> d.nodes,
                  node |-> n,
                  used |-> m_usedComments \cup {loc.begin},
                  loc |-> loc,
                  warnings |-> d.warnings]

\* ------------------------------------------------------------ the walk
\* The depth-first walk of the syntax tree: visit(X) runs when the walk reads
\* the token that starts an X, endVisit(X) when it reads the token that ends
\* it (or, right after a child was left, at that child's last token).
Top == IF stack = <<>> THEN "File" ELSE stack[Len(stack)].kind

MemberKinds == {"ObjectDefinition", "ObjectBinding", "ArrayBinding", "Property",
                "Signal", "FunctionDeclaration", "ScriptBinding"}

\* The constructs the grammar lets start inside a construct of kind parent.
ChildKinds(parent) ==
    CASE parent = "File" -> IF m_current = Root THEN {"Import", "ObjectDefinition"} ELSE {}
      [] parent \in {"ObjectDefinition", "ObjectBinding"} -> MemberKinds
      [] parent = "ArrayBinding" -> {"ObjectDefinition"}
      [] parent = "Property" -> {"ObjectBinding", "ArrayBinding"}
      [] parent \in {"FunctionDeclaration", "ScriptBinding"} -> {"FunctionDeclaration"}
      [] OTHER -> {}

CanEnter(kind) == NextCodeSlot(pos) # 0 /\ kind \in ChildKinds(Top)

\* firstSourceLocation().begin() of the construct the walk is about to enter.
FirstOffset == Base(NextCodeSlot(pos))

\* lastSourceLocation().end() of the construct the walk is about to leave.
\* A property declaration ends with its binding when it has one
\* (property Item x: Item {}); every other construct ends with a token of its
\* own.
LastOffsets ==
    (IF NextCodeSlot(pos) # 0 THEN {Base(NextCodeSlot(pos)) + 1} ELSE {})
    \cup (IF Top = "Property" /\ lastOp.op = "endVisit"
             /\ lastOp.kind \in {"ObjectBinding", "ArrayBinding"}
          THEN {lastOp.offset} ELSE {})

CanLeave(kind) == stack # <<>> /\ Top = kind

Op(op, kind, offset) ==
    [op |-> op, kind |-> kind, offset |-> offset, level |-> m_nestingLevel,
     applied |-> FALSE, bound |-> NoLoc, node |-> 0, doc |-> NoDoc,
     readOnly |-> FALSE, warnings |-> <<>>, created |-> FALSE, type |-> ""]

\* The handler ran applyDocumentation with result r for a primary node
\* declared read-only or not.
Applied(op, r, doc, readOnly) ==
    [op EXCEPT !.applied = TRUE, !.bound = r.loc, !.node = r.node,
               !.doc = IF IsValid(r.loc) THEN doc ELSE NoDoc,
               !.readOnly = readOnly, !.warnings = r.warnings,
               !.created = Len(r.nodes) > Len(nodes)]

Enter(kind) ==
    /\ stack' = Append(stack, [kind |-> kind, begin |-> FirstOffset])
    /\ pos' = NextCodeSlot(pos) + 1
    /\ closed' = closed
    /\ UNCHANGED <<hasRecursionDepthError, visitors>>

Leave(end) ==
    /\ stack' = SubSeq(stack, 1, Len(stack) - 1)
    /\ pos' = IF lastOp.op = "endVisit" /\ end = lastOp.offset THEN pos
              ELSE NextCodeSlot(pos) + 1
    /\ closed' = closed \cup {[kind |-> Top, begin |-> stack[Len(stack)].begin,
                               end |-> end]}
    /\ lastOp' = Op("endVisit", Top, end)
    /\ UNCHANGED <<m_document, comments, m_usedComments, m_current, m_importList, nodes,
                   binds, hasRecursionDepthError, visitors>>

\* What the comment parser may make of the comment a bind at offset takes.
DocsAt(docs, offset) ==
    IF IsValid(PrecedingComment(offset)) THEN docs ELSE {NoDoc}

\* What the flags of the primary node read as when a topic has them copied:
\* a property node's own flags, and anything for a node of another class.
GarbageFor(kind, doc) ==
    IF kind # "Property" /\ \E i \in 1..Len(doc.topics) : EndsWithProperty(doc.topics[i].topic)
    THEN Garbage ELSE {NoGarbage}

Bound(r, offset) ==
    IF IsValid(r.loc)
    THEN Append(binds, [comment |-> r.loc, offset |-> offset, node |-> r.node])
    ELSE binds

----------------------------------------------------------------------------
\* getFullyQualifiedId(id): the names of the qualified id joined by dots.
RECURSIVE GetFullyQualifiedId(_)
GetFullyQualifiedId(id) ==
    IF id = <<>> THEN ""
    ELSE IF Len(id) = 1 THEN id[1]
         ELSE GetFullyQualifiedId(SubSeq(id, 1, Len(id) - 1)) \o "." \o id[Len(id)]

\* The qualified type names an object definition is declared with.
WalkTypeIds == {<<"Item">>}

QualifiedTypeIds == {<<"Item">>, <<"QtQuick", "Item">>}

\* Mutant: the declared type does not replace a base the node already has.
DeclaredBaseUnlessSet(base, type, documented) ==
    IF documented /\ base = "" THEN type ELSE base

\* if (!component->doc().isEmpty()) qmlTypeNode->setQmlBaseName(type);
DeclaredBase(base, type, documented) == IF documented THEN type ELSE base

ObjectDefinition(docs, ids) ==
    /\ CanEnter("ObjectDefinition")
    /\ Enter("ObjectDefinition")
    /\ m_nestingLevel' = m_nestingLevel + 1
    /\ \E doc \in DocsAt(docs, FirstOffset), id \in ids :
       \E garbage \in GarbageFor("ObjectDefinition", doc) :
         IF IsNamespace(nodes, m_current)
         THEN LET r == ApplyDocumentation(FirstOffset, 0, nodes, doc, garbage)
                  type == GetFullyQualifiedId(id)
              IN  /\ nodes' = [r.nodes EXCEPT
                                 ![r.node].baseName =
                                     DeclaredBase(@, type, r.nodes[r.node].doc # 0),
                                 ![r.node].title = m_name,
                                 ![r.node].importList = m_importList]
                  /\ m_importList' = <<>>
                  /\ m_current' = r.node
                  /\ m_usedComments' = r.used
                  /\ binds' = Bound(r, FirstOffset)
                  /\ lastOp' = [Applied(Op("visit", "ObjectDefinition", FirstOffset),
                                        r, doc, FALSE) EXCEPT !.type = type]
         ELSE /\ lastOp' = Op("visit", "ObjectDefinition", FirstOffset)
              /\ UNCHANGED <<nodes, m_current, m_importList, m_usedComments, binds>>
    /\ UNCHANGED <<m_document, comments, m_lastEndOffset>>

VisitObjectDefinition == ObjectDefinition(WalkDocs, WalkTypeIds)

\* Mutant: the cursor is set to where the object definition starts.
EndVisitObjectDefinitionAtFirst ==
    /\ CanLeave("ObjectDefinition")
    /\ \E end \in LastOffsets :
         /\ Leave(end)
         /\ m_nestingLevel' = IF m_nestingLevel > 0 THEN m_nestingLevel - 1
                              ELSE m_nestingLevel
         /\ m_lastEndOffset' = stack[Len(stack)].begin

EndVisitObjectDefinition ==
    /\ CanLeave("ObjectDefinition")
    /\ \E end \in LastOffsets :
         /\ Leave(end)
         /\ m_nestingLevel' = IF m_nestingLevel > 0 THEN m_nestingLevel - 1
                              ELSE m_nestingLevel
         /\ m_lastEndOffset' = end

\* An import statement as the parser hands it over: the text of its file-name
\* token and its URI.
Imports == {[fileName |-> "\"lib.js\"", uri |-> ""],
            [fileName |-> "", uri |-> "QtQuick"]}

\* name[0] == '"' ? name.mid(1, name.size() - 2) : name
Unquoted(fileName) == IF fileName = "\"lib.js\"" THEN "lib.js" ELSE fileName

VisitImport ==
    /\ CanEnter("Import")
    /\ Enter("Import")
    /\ \E import \in Imports :
         m_importList' = Append(m_importList, [name |-> Unquoted(import.fileName),
                                               version |-> "",
                                               importUri |-> import.uri])
    /\ lastOp' = Op("visit", "Import", FirstOffset)
    /\ UNCHANGED <<m_document, comments, m_lastEndOffset, m_usedComments, m_nestingLevel,
                   m_current, nodes, binds>>

EndVisitImport ==
    /\ CanLeave("Import")
    /\ \E end \in LastOffsets :
         /\ Leave(end)
         /\ m_lastEndOffset' = end
         /\ UNCHANGED m_nestingLevel

\* Mutant: an object binding is entered without being counted.
VisitObjectBindingUncounted ==
    /\ CanEnter("ObjectBinding")
    /\ Enter("ObjectBinding")
    /\ lastOp' = Op("visit", "ObjectBinding", FirstOffset)
    /\ UNCHANGED <<m_document, comments, m_lastEndOffset, m_usedComments, m_current,
                   m_importList, nodes, binds, m_nestingLevel>>

VisitObjectBinding ==
    /\ CanEnter("ObjectBinding")
    /\ Enter("ObjectBinding")
    /\ m_nestingLevel' = m_nestingLevel + 1
    /\ lastOp' = Op("visit", "ObjectBinding", FirstOffset)
    /\ UNCHANGED <<m_document, comments, m_lastEndOffset, m_usedComments, m_current,
                   m_importList, nodes, binds>>

EndVisitObjectBinding ==
    /\ CanLeave("ObjectBinding")
    /\ \E end \in LastOffsets :
         /\ Leave(end)
         /\ m_nestingLevel' = m_nestingLevel - 1
         /\ UNCHANGED m_lastEndOffset

VisitArrayBinding ==
    /\ CanEnter("ArrayBinding")
    /\ Enter("ArrayBinding")
    /\ lastOp' = Op("visit", "ArrayBinding", FirstOffset)
    /\ UNCHANGED <<m_document, comments, m_lastEndOffset, m_usedComments, m_nestingLevel,
                   m_current, m_importList, nodes, binds>>

EndVisitArrayBinding ==
    /\ CanLeave("ArrayBinding")
    /\ \E end \in LastOffsets :
         /\ Leave(end)
         /\ UNCHANGED <<m_lastEndOffset, m_nestingLevel>>

\* A signal or property declaration as the parser hands it over.
SignalParameters == <<[type |-> "int", name |-> "x"], [type |-> "", name |-> "y"]>>

Members(names, flags, modifiers) ==
    [type : {"Property"}, name : names, memberType : {"int"}, isReadonly : flags,
     isDefaultMember : flags, required : modifiers, list : modifiers,
     parameters : {<<>>}]
    \cup [type : {"Signal"}, name : {"s"}, memberType : {""}, isReadonly : {FALSE},
          isDefaultMember : {FALSE}, required : {FALSE}, list : {FALSE},
          parameters : {SignalParameters}]

WalkMembers == Members({"a"}, {FALSE}, {FALSE})

\* The parameters of a signal that have both a type and a name.
RECURSIVE TypedParameters(_, _)
TypedParameters(parameters, i) ==
    IF i > Len(parameters) THEN <<>>
    ELSE LET it == parameters[i]
             rest == TypedParameters(parameters, i + 1)
         IN  IF it.type # "" /\ it.name # ""
             THEN <<[type |-> <<it.type>>, name |-> <<it.name>>,
                     defaultValue |-> <<>>]>> \o rest
             ELSE rest

BindMembers == Members({"a", "b"}, BOOLEAN, {FALSE})

\* Mutant: the gate lets the members of a nested object through.
BelowPublicLevelLoose == m_nestingLevel > 2

\* m_nestingLevel > 1: the member is not one of the top-level object.
BelowPublicLevel == m_nestingLevel > 1

\* case UiPublicMember::Signal
VisitSignal(member, offset, doc, garbage) ==
    LET newSignal == [NewFunctionNode("QmlSignal", m_current, member.name)
                        EXCEPT !.params = TypedParameters(member.parameters, 1)]
        ns == Append(nodes, newSignal)
    IN  ApplyDocumentation(offset, Len(ns), ns, doc, garbage)

\* case UiPublicMember::Property
VisitProperty(member, offset, doc, garbage) ==
    LET found == HasQmlProperty(nodes, m_current, member.name)
        ns1 == IF found = 0
               THEN Append(nodes, NewQmlPropertyNode(m_current, member.name,
                                                     member.memberType, FALSE))
               ELSE nodes
        n == IF found = 0 THEN Len(ns1) ELSE found
        ns2 == [ns1 EXCEPT ![n].readOnly = member.isReadonly,
                           ![n].isDefault = IF member.isDefaultMember THEN TRUE ELSE @,
                           ![n].required = IF member.required THEN TRUE ELSE @,
                           ![n].isList = member.list]
    IN  ApplyDocumentation(offset, n, ns2, doc, garbage)

PublicMember(members, docs) ==
    \E member \in members, doc \in DocsAt(docs, FirstOffset) :
    \E garbage \in GarbageFor(member.type, doc) :
      /\ CanEnter(member.type)
      /\ Enter(member.type)
      /\ IF ~BelowPublicLevel /\ IsQmlType(nodes, m_current)
         THEN LET r == IF member.type = "Signal"
                       THEN VisitSignal(member, FirstOffset, doc, garbage)
                       ELSE VisitProperty(member, FirstOffset, doc, garbage)
              IN  /\ nodes' = r.nodes
                  /\ m_usedComments' = r.used
                  /\ binds' = Bound(r, FirstOffset)
                  /\ lastOp' = Applied(Op("visit", member.type, FirstOffset), r,
                                       doc, member.isReadonly)
         ELSE /\ lastOp' = Op("visit", member.type, FirstOffset)
              /\ UNCHANGED <<nodes, m_usedComments, binds>>
      /\ UNCHANGED <<m_document, comments, m_lastEndOffset, m_nestingLevel, m_current,
                     m_importList>>

VisitPublicMember == PublicMember(WalkMembers, WalkDocs)

EndVisitPublicMember ==
    /\ CanLeave("Property") \/ CanLeave("Signal")
    /\ \E end \in LastOffsets :
         /\ Leave(end)
         /\ m_lastEndOffset' = end
         /\ UNCHANGED m_nestingLevel

\* A function declaration as the parser hands it over: its formal parameters,
\* each with the source text of its initializer.
Formals == <<[name |-> "p", initializer |-> <<>>], [name |-> "q", initializer |-> <<"1">>]>>

FormalParameters(formals) ==
    [i \in 1..Len(formals) |->
        [type |-> <<>>, name |-> <<formals[i].name>>,
         defaultValue |-> formals[i].initializer]]

\* m_nestingLevel <= 1
AtPublicLevel == m_nestingLevel <= 1

FunctionDeclaration(docs) ==
    /\ CanEnter("FunctionDeclaration")
    /\ Enter("FunctionDeclaration")
    /\ \E doc \in DocsAt(docs, FirstOffset) :
       \E garbage \in GarbageFor("FunctionDeclaration", doc) :
         IF AtPublicLevel /\ IsQmlType(nodes, m_current)
         THEN LET method == [NewFunctionNode("QmlMethod", m_current, "f")
                               EXCEPT !.params = FormalParameters(Formals)]
                  ns == Append(nodes, method)
                  r == ApplyDocumentation(FirstOffset, Len(ns), ns, doc, garbage)
              IN  /\ nodes' = r.nodes
                  /\ m_usedComments' = r.used
                  /\ binds' = Bound(r, FirstOffset)
                  /\ lastOp' = Applied(Op("visit", "FunctionDeclaration", FirstOffset),
                                       r, doc, FALSE)
         ELSE /\ lastOp' = Op("visit", "FunctionDeclaration", FirstOffset)
              /\ UNCHANGED <<nodes, m_usedComments, binds>>
    /\ UNCHANGED <<m_document, comments, m_lastEndOffset, m_nestingLevel, m_current,
                   m_importList>>

VisitFunctionDeclaration == FunctionDeclaration(WalkDocs)

EndVisitFunctionDeclaration ==
    /\ CanLeave("FunctionDeclaration")
    /\ \E end \in LastOffsets :
         /\ Leave(end)
         /\ m_lastEndOffset' = end
         /\ UNCHANGED m_nestingLevel

VisitScriptBinding ==
    /\ CanEnter("ScriptBinding")
    /\ Enter("ScriptBinding")
    /\ lastOp' = Op("visit", "ScriptBinding", FirstOffset)
    /\ UNCHANGED <<m_document, comments, m_lastEndOffset, m_usedComments, m_nestingLevel,
                   m_current, m_importList, nodes, binds>>

EndVisitScriptBinding ==
    /\ CanLeave("ScriptBinding")
    /\ \E end \in LastOffsets :
         /\ Leave(end)
         /\ m_lastEndOffset' = end
         /\ UNCHANGED m_nestingLevel

\* hasError()
HasError == hasRecursionDepthError

\* throwRecursionDepthError(): the walker calls it in place of the visit of a
\* node inside an open construct that its recursion budget does not reach any
\* more, passes over that node and walks on.
ThrowRecursionDepthError ==
    /\ stack # <<>>
    /\ NextCodeSlot(pos) # 0
    /\ hasRecursionDepthError' = TRUE
    /\ pos' = NextCodeSlot(pos) + 1
    /\ lastOp' = Op("throwRecursionDepthError", Top, FirstOffset)
    /\ UNCHANGED <<m_document, comments, stack, m_lastEndOffset, m_usedComments,
                   m_nestingLevel, m_current, m_importList, nodes, binds, closed,
                   visitors>>

\* Two files of one run with the same base name, hence the same type name
\* m_name, each read by a visitor of its own against the one repository.
Files == {"a/T.qml", "b/T.qml"}

Visitor(pc, doc, node, created) ==
    [pc |-> pc, doc |-> doc, node |-> node, created |-> created]

\* No visitor but the one the walk variables describe.
NoVisitors == [f \in Files |-> Visitor("none", NoDoc, 0, FALSE)]

\* The comments above the top-level object of such a file.
RaceDocs ==
    [topics : {<<>>},
     commands : {q \in SeqsUpTo({Command("inqmlmodule", <<"M">>),
                                 Command("since", <<"6.0">>)}, MaxCommands) :
                    NoRepeat(q)}]

\* applyDocumentation(location, nullptr), statement by statement.
\* node = QDocDatabase::qdocDB()->findQmlTypeInPrimaryTree(qmid, m_name);
FindType(f) ==
    /\ visitors[f].pc = "find"
    /\ LET found == FindQmlTypeInPrimaryTree(nodes, Qmid(visitors[f].doc), m_name)
       IN  visitors' = [visitors EXCEPT
                          ![f].node = found,
                          ![f].pc = IF found = 0 THEN "create" ELSE "setDoc"]
    /\ UNCHANGED <<m_document, comments, pos, stack, m_lastEndOffset, m_usedComments,
                   m_nestingLevel, m_current, m_importList, nodes,
                   hasRecursionDepthError, lastOp, binds, closed>>

\* if (!node) { node = new QmlTypeNode(m_current, m_name, Node::QmlType); ... }
CreateType(f) ==
    /\ visitors[f].pc = "create"
    /\ nodes' = Append(nodes, [NewQmlTypeNode(Root, m_name)
                                 EXCEPT !.location = comments[1].begin])
    /\ visitors' = [visitors EXCEPT ![f].node = Len(nodes) + 1,
                                    ![f].created = TRUE,
                                    ![f].pc = "setDoc"]
    /\ UNCHANGED <<m_document, comments, pos, stack, m_lastEndOffset, m_usedComments,
                   m_nestingLevel, m_current, m_importList,
                   hasRecursionDepthError, lastOp, binds, closed>>

\* node->setDoc(doc); ... applyMetacommands(loc, node, doc);
SetDoc(f) ==
    /\ visitors[f].pc = "setDoc"
    /\ nodes' = ApplyMetacommands(
                    [nodes |-> [nodes EXCEPT ![visitors[f].node].doc = comments[1].begin],
                     warnings |-> <<>>],
                    visitors[f].node, visitors[f].doc.commands).nodes
    /\ visitors' = [visitors EXCEPT ![f].pc = "done"]
    /\ UNCHANGED <<m_document, comments, pos, stack, m_lastEndOffset, m_usedComments,
                   m_nestingLevel, m_current, m_importList,
                   hasRecursionDepthError, lastOp, binds, closed>>

----------------------------------------------------------------------------
\* The state the constructor leaves, for any file the lexer may have read.
Init ==
    /\ m_document \in Layouts
    /\ comments = CommentsOf(m_document)
    /\ pos = 1
    /\ stack = <<>>
    /\ m_lastEndOffset = 0
    /\ m_usedComments = {}
    /\ m_nestingLevel = 0
    /\ m_current = Root
    /\ m_importList = <<>>
    /\ nodes = <<>>
    /\ lastOp = Op("init", "File", 0)
    /\ binds = <<>>
    /\ closed = {}
    /\ hasRecursionDepthError = FALSE
    /\ visitors = NoVisitors

Next ==
    \/ VisitObjectDefinition
    \/ EndVisitObjectDefinition
    \/ VisitImport
    \/ EndVisitImport
    \/ VisitObjectBinding
    \/ EndVisitObjectBinding
    \/ VisitArrayBinding
    \/ EndVisitArrayBinding
    \/ VisitPublicMember
    \/ EndVisitPublicMember
    \/ VisitFunctionDeclaration
    \/ EndVisitFunctionDeclaration
    \/ VisitScriptBinding
    \/ EndVisitScriptBinding

vars == walkVars

Spec == Init /\ [][Next]_vars

\* The binder, walked with every parsed comment Docs holds and every
\* declaration of BindMembers over the files that hold one documentation
\* comment: an object with members and methods, no nested object.
BindLayouts ==
    {[s \in Slots |-> IF s = c THEN "/*!" ELSE "code"] : c \in Slots}

BindInit ==
    /\ m_document \in BindLayouts
    /\ comments = CommentsOf(m_document)
    /\ pos = 1
    /\ stack = <<>>
    /\ m_lastEndOffset = 0
    /\ m_usedComments = {}
    /\ m_nestingLevel = 0
    /\ m_current = Root
    /\ m_importList = <<>>
    /\ nodes = <<>>
    /\ lastOp = Op("init", "File", 0)
    /\ binds = <<>>
    /\ closed = {}
    /\ hasRecursionDepthError = FALSE
    /\ visitors = NoVisitors

BindObjectDefinition == ObjectDefinition(Docs, WalkTypeIds)

BindPublicMember == PublicMember(BindMembers, Docs)

BindFunctionDeclaration == FunctionDeclaration(Docs)

BindNext ==
    \/ BindObjectDefinition
    \/ BindPublicMember
    \/ EndVisitPublicMember
    \/ BindFunctionDeclaration
    \/ EndVisitFunctionDeclaration

BindSpec == BindInit /\ [][BindNext]_vars

----------------------------------------------------------------------------
\* The signature parser, walked with every comment of SignatureDocs over the
\* file that holds one documentation comment, right after the first token of
\* the top-level object.
ParseLayout == [s \in Slots |-> IF s = 2 THEN "/*!" ELSE "code"]

ParseInit ==
    /\ m_document = ParseLayout
    /\ comments = CommentsOf(m_document)
    /\ pos = 1
    /\ stack = <<>>
    /\ m_lastEndOffset = 0
    /\ m_usedComments = {}
    /\ m_nestingLevel = 0
    /\ m_current = Root
    /\ m_importList = <<>>
    /\ nodes = <<>>
    /\ lastOp = Op("init", "File", 0)
    /\ binds = <<>>
    /\ closed = {}
    /\ hasRecursionDepthError = FALSE
    /\ visitors = NoVisitors

ParsePublicMember == PublicMember(WalkMembers, SignatureDocs)

ParseFunctionDeclaration == FunctionDeclaration(SignatureDocs)

ParseNext ==
    \/ VisitObjectDefinition
    \/ ParsePublicMember
    \/ EndVisitPublicMember
    \/ ParseFunctionDeclaration
    \/ EndVisitFunctionDeclaration

ParseSpec == ParseInit /\ [][ParseNext]_vars

----------------------------------------------------------------------------
\* The metacommand interpreter, walked with every comment of MetaDocs over the
\* files whose one documentation comment stands before the top-level object or
\* before its first member, with a repository that is empty or already holds
\* the type of the file's name, in a module or in none.
MetaLayouts == {[s \in Slots |-> IF s = c THEN "/*!" ELSE "code"] : c \in {1, 2}}

Repositories ==
    {<<>>} \cup {<<[NewQmlTypeNode(Root, m_name) EXCEPT !.module = qmid]>> :
                    qmid \in {"", "M"}}

MetaInit ==
    /\ m_document \in MetaLayouts
    /\ comments = CommentsOf(m_document)
    /\ pos = 1
    /\ stack = <<>>
    /\ m_lastEndOffset = 0
    /\ m_usedComments = {}
    /\ m_nestingLevel = 0
    /\ m_current = Root
    /\ m_importList = <<>>
    /\ nodes \in Repositories
    /\ lastOp = Op("init", "File", 0)
    /\ binds = <<>>
    /\ closed = {}
    /\ hasRecursionDepthError = FALSE
    /\ visitors = NoVisitors

MetaObjectDefinition == ObjectDefinition(MetaDocs, QualifiedTypeIds)

MetaPublicMember == PublicMember(WalkMembers, MetaDocs)

MetaFunctionDeclaration == FunctionDeclaration(MetaDocs)

MetaNext ==
    \/ MetaObjectDefinition
    \/ MetaPublicMember
    \/ EndVisitPublicMember
    \/ MetaFunctionDeclaration
    \/ EndVisitFunctionDeclaration

MetaSpec == MetaInit /\ [][MetaNext]_vars

\* The walk with a walker whose recursion budget may run out: the files of
\* BindLayouts, walked with every handler of Next and the walker's call of
\* throwRecursionDepthError.
DepthInit ==
    /\ m_document \in BindLayouts
    /\ comments = CommentsOf(m_document)
    /\ pos = 1
    /\ stack = <<>>
    /\ m_lastEndOffset = 0
    /\ m_usedComments = {}
    /\ m_nestingLevel = 0
    /\ m_current = Root
    /\ m_importList = <<>>
    /\ nodes = <<>>
    /\ lastOp = Op("init", "File", 0)
    /\ binds = <<>>
    /\ closed = {}
    /\ hasRecursionDepthError = FALSE
    /\ visitors = NoVisitors

DepthNext ==
    \/ Next
    \/ ThrowRecursionDepthError

DepthSpec == DepthInit /\ [][DepthNext]_vars

\* Two visitors of one run, each about to look up the type of its file for
\* the comment above its top-level object, over any repository of
\* Repositories; their statements interleave in any order.
RaceInit ==
    /\ m_document = [s \in Slots |-> IF s = 1 THEN "/*!" ELSE "code"]
    /\ comments = CommentsOf(m_document)
    /\ pos = 1
    /\ stack = <<>>
    /\ m_lastEndOffset = 0
    /\ m_usedComments = {}
    /\ m_nestingLevel = 0
    /\ m_current = Root
    /\ m_importList = <<>>
    /\ nodes \in Repositories
    /\ lastOp = Op("init", "File", 0)
    /\ binds = <<>>
    /\ closed = {}
    /\ hasRecursionDepthError = FALSE
    /\ visitors \in [Files -> {Visitor("find", doc, 0, FALSE) : doc \in RaceDocs}]

RaceNext ==
    \E f \in Files :
       \/ FindType(f)
       \/ CreateType(f)
       \/ SetDoc(f)

RaceSpec == RaceInit /\ [][RaceNext]_vars

----------------------------------------------------------------------------
\* The claims about the walk of a file, checked under Spec.

\* Where a construct can start: the offsets at which the walk looks a comment up.
TokenOffsets == {Base(s) : s \in {x \in Slots : m_document[x] = "code"}}

\* A documentation comment as the claims word it: a block comment whose body
\* starts with '!' or '*'.
Eligible(c) == c.prev = "*" /\ c.first \in {"!", "*"}

MemberVisit(op) == op.op = "visit" /\ op.kind \in {"Property", "Signal"}

\* C1: each comment is bound by at most one applyDocumentation call: the
\* history of binds names no comment twice, no lookup at any offset returns a
\* comment whose start is in the used set, and the lookup a second bind at the
\* offset of the bind that just ran would make finds no comment.
C1_BoundAtMostOnce ==
    /\ \A i, j \in 1..Len(binds) : i # j => binds[i].comment # binds[j].comment
    /\ \A o \in TokenOffsets : PrecedingComment(o).begin \notin m_usedComments
    /\ lastOp.applied /\ IsValid(lastOp.bound)
          => ~IsValid(PrecedingComment(lastOp.offset))

\* A bind found no comment although a comment bound earlier lies above the
\* construct, after the cursor: only its being used kept it from this bind.
C1_Witness ==
    /\ lastOp.applied /\ ~IsValid(lastOp.bound)
    /\ \E i \in 1..Len(binds) :
         /\ binds[i].comment.end < lastOp.offset
         /\ binds[i].comment.begin > m_lastEndOffset
         /\ binds[i].comment.begin \in m_usedComments

\* The comments a lookup at offset o could return by the claim's conditions.
Qualifying(o) ==
    {i \in 1..Len(comments) :
        Eligible(comments[i]) /\ m_lastEndOffset < comments[i].begin
        /\ comments[i].end < o}

MaxOf(S) == CHOOSE x \in S : \A y \in S : y <= x

\* C2 as stated: the nearest qualifying comment, unless a used comment lies
\* between it and the offset.
NearestUnlessUsedBetween(o) ==
    IF Qualifying(o) = {} THEN NoLoc
    ELSE LET m == MaxOf(Qualifying(o))
         IN  IF \E j \in 1..Len(comments) :
                    j > m /\ comments[j].end < o
                    /\ comments[j].begin \in m_usedComments
             THEN NoLoc
             ELSE comments[m]

\* C2 as amended: the nearest qualifying comment, unless it or a comment after
\* it in the list is used.
NearestUnlessUsedFrom(o) ==
    IF Qualifying(o) = {} THEN NoLoc
    ELSE LET m == MaxOf(Qualifying(o))
         IN  IF \E j \in 1..Len(comments) :
                    j >= m /\ comments[j].begin \in m_usedComments
             THEN NoLoc
             ELSE comments[m]

\* C2 (original statement): every lookup a handler makes returns the nearest
\* doc-eligible comment with last_end < start and end < offset, provided no
\* used comment lies between it and the offset, and none otherwise.
C2_Original ==
    [][lastOp'.applied => lastOp'.bound = NearestUnlessUsedBetween(lastOp'.offset)]_vars

\* C2 (amended): at every offset a construct can start at, precedingComment
\* returns the comment with the greatest start among the doc-eligible comments
\* with last_end < start and end < offset, provided neither that comment nor
\* any comment after it in the list is already used; otherwise none.
C2_NearestEligible ==
    \A o \in TokenOffsets : PrecedingComment(o) = NearestUnlessUsedFrom(o)

\* A bind took a documentation comment over an ineligible comment that lies
\* between it and the construct.
C2_Witness ==
    /\ lastOp.applied /\ IsValid(lastOp.bound)
    /\ \E i \in 1..Len(comments) :
         /\ ~Eligible(comments[i])
         /\ lastOp.bound.end < comments[i].begin
         /\ comments[i].end < lastOp.offset

\* C3: precedingComment never returns a comment that starts at or before
\* m_lastEndOffset, and once the backward scan reaches such a comment it
\* returns none: no comment at or before it in the list is returned.
C3_NeverAtOrBeforeCursor ==
    \A o \in TokenOffsets :
       LET r == PrecedingComment(o)
       IN  /\ IsValid(r) => r.begin > m_lastEndOffset
           /\ \A i \in 1..Len(comments) :
                comments[i].begin <= m_lastEndOffset
                   => \A j \in 1..i : r # comments[j]

\* A bind found no comment although an eligible, unused comment ends before
\* the construct: the comment starts at or before the cursor.
C3_Witness ==
    /\ lastOp.applied /\ ~IsValid(lastOp.bound)
    /\ \E i \in 1..Len(comments) :
         /\ Eligible(comments[i])
         /\ comments[i].begin \notin m_usedComments
         /\ comments[i].end < lastOp.offset
         /\ comments[i].begin <= m_lastEndOffset

\* C4: a property or signal declaration visited while the nesting level is
\* greater than 1 creates no node and leaves the used-comment set unchanged.
C4_NestedMembersIgnored ==
    [][MemberVisit(lastOp') /\ m_nestingLevel > 1
          => nodes' = nodes /\ m_usedComments' = m_usedComments]_vars

\* A member of a nested object was visited with a documentation comment right
\* above it that a bind at that offset would have taken.
C4_Witness ==
    /\ MemberVisit(lastOp) /\ lastOp.level > 1
    /\ IsQmlType(nodes, m_current)
    /\ IsValid(PrecedingComment(lastOp.offset))

\* C6: once a construct has been left, no comment inside its span is bound to
\* a construct visited later, whatever the kind of the construct.
C6_NoBindIntoLeftConstruct ==
    \A i \in 1..Len(binds) : \A s \in closed :
       ~(/\ s.begin < binds[i].comment.begin
         /\ binds[i].comment.end < s.end
         /\ s.end <= binds[i].offset)

CursorKinds == {"ObjectDefinition", "Import", "Property", "Signal",
                "FunctionDeclaration", "ScriptBinding"}

\* C7: m_lastEndOffset never decreases, and only the exit of an object
\* definition, import, public member, function declaration or script binding
\* changes it.
C7_CursorMonotone ==
    [][/\ m_lastEndOffset' >= m_lastEndOffset
       /\ m_lastEndOffset' # m_lastEndOffset
             => lastOp'.op = "endVisit" /\ lastOp'.kind \in CursorKinds
       /\ lastOp'.op = "endVisit" /\ lastOp'.kind \in CursorKinds
             => m_lastEndOffset' = lastOp'.offset]_vars

\* An object definition was left after one of its members had been left: the
\* cursor moved on from the member's end to the object's.
C7_Witness ==
    /\ lastOp.op = "endVisit" /\ lastOp.kind = "ObjectDefinition"
    /\ \E s \in closed : s.kind \in {"Property", "FunctionDeclaration", "ScriptBinding"}
                         /\ s.end < m_lastEndOffset
    /\ m_lastEndOffset = lastOp.offset

\* ------------------------------------------------------------ the binder (BindSpec)
\* The last step bound a comment to a property declaration of the top-level
\* object.
PropertyBound ==
    lastOp.applied /\ IsValid(lastOp.bound) /\ lastOp.kind = "Property"

\* The topics of the bound comment that name another property than the
\* primary node.
SiblingTopics ==
    {t \in {lastOp.doc.topics[i] : i \in 1..Len(lastOp.doc.topics)} :
        EndsWithProperty(t.topic) /\ t.parsed /\ t.name # nodes[lastOp.node].name}

\* The property nodes of the name and attached-ness of topic t under the
\* primary node's parent.
SiblingsOf(t) ==
    {n \in 1..Len(nodes) : /\ IsQmlProperty(nodes, n)
                           /\ nodes[n].parent = nodes[lastOp.node].parent
                           /\ nodes[n].name = t.name
                           /\ nodes[n].attached = ContainsAttached(t.topic)}

HasCommand(doc, command) ==
    \E i \in 1..Len(doc.commands) : doc.commands[i].name = command

\* C10 as stated: after applyDocumentation bound a comment to a property node,
\* every topic of the comment that names a different property has exactly one
\* sibling property node of that name and attached-ness under the primary
\* node's parent, which carries the same documentation and whose read-only flag
\* is the primary node's when the topic is not attached and false when it is.
C10_Original ==
    PropertyBound =>
      \A t \in SiblingTopics :
        /\ Cardinality(SiblingsOf(t)) = 1
        /\ \A n \in SiblingsOf(t) :
             /\ nodes[n].doc = lastOp.bound.begin
             /\ nodes[n].readOnly = IF ContainsAttached(t.topic) THEN FALSE
                                    ELSE nodes[lastOp.node].readOnly

\* C10 amended: after applyDocumentation bound a comment to a property node,
\* every topic of the comment that names a different property has exactly one
\* sibling property node of that name and attached-ness under the primary
\* node's parent, which carries the same documentation; the sibling is
\* read-only when the comment carries \qmlreadonly, and otherwise exactly when
\* the primary property is declared readonly and the topic is not attached.
C10_SiblingProperty ==
    PropertyBound =>
      \A t \in SiblingTopics :
        /\ Cardinality(SiblingsOf(t)) = 1
        /\ \A n \in SiblingsOf(t) :
             /\ nodes[n].doc = lastOp.bound.begin
             /\ nodes[n].readOnly = IF HasCommand(lastOp.doc, "qmlreadonly") THEN TRUE
                                    ELSE lastOp.readOnly /\ ~ContainsAttached(t.topic)

\* A readonly property was bound a comment that declares an attached property
\* of another name and carries no metacommand.
C10_Witness ==
    /\ PropertyBound
    /\ lastOp.readOnly
    /\ lastOp.doc.commands = <<>>
    /\ \E t \in SiblingTopics : ContainsAttached(t.topic) /\ SiblingsOf(t) # {}

\* ------------------------------------------------------------ the signature parser (ParseSpec)
\* The last step bound a comment whose topic is a method or signal signature to
\* a function node.
SignatureBound ==
    /\ lastOp.applied /\ IsValid(lastOp.bound)
    /\ IsFunction(nodes, lastOp.node)
    /\ Len(lastOp.doc.topics) = 1
    /\ EndsWithMethod(lastOp.doc.topics[1].topic) \/ lastOp.doc.topics[1].topic = "qmlsignal"

BoundSignature == lastOp.doc.topics[1].args

\* The parameter list the declaration gave the function node before its
\* comment was read.
DeclaredParameters ==
    IF lastOp.kind = "Signal" THEN TypedParameters(SignalParameters, 1)
    ELSE FormalParameters(Formals)

\* The parse of a signature returns false.
ParseFails(signature) ==
    ~QmlSignatureParser(NewFunctionNode("QmlMethod", Root, ""), signature, 0).ok

\* C5: when the signature of a method or signal topic fails to parse, the
\* function node's return type and parameter list after applyDocumentation are
\* what the declaration had set before the parse.
C5_FailedParseLeavesSignature ==
    (SignatureBound /\ ParseFails(BoundSignature)) =>
        /\ nodes[lastOp.node].returnType = <<>>
        /\ nodes[lastOp.node].params = DeclaredParameters

\* C8: "void foo(int a, const Bar &b = Bar(1,2))" parses, to return type void
\* and the two parameters {int, a, no default} and {const Bar &, b, Bar(1,2)}.
C8_ConstDefaultParsed ==
    (SignatureBound /\ BoundSignature = SigConstDefault) =>
        /\ ~ParseFails(SigConstDefault)
        /\ nodes[lastOp.node].returnType = <<"void">>
        /\ nodes[lastOp.node].params =
             <<[type |-> <<"int">>, name |-> <<"a">>, defaultValue |-> <<>>],
               [type |-> <<"const", "Bar", "&">>, name |-> <<"b">>,
                defaultValue |-> <<"Bar", "(", "1", ",", "2", ")">>]>>

\* The signatures name(x) of one bare identifier as parameter; "bar(x)" is one.
BareSignatures == {<<name, "(", x, ")">> : name \in {"bar", "foo"}, x \in {"x", "foo"}}

\* C9: a signature with no return type whose one parameter is a bare
\* identifier, as "bar(x)", leaves the function with an empty return type and
\* exactly one parameter, of empty type, the identifier as name and no default.
C9_BareIdentifierIsName ==
    (SignatureBound /\ BoundSignature \in BareSignatures) =>
        /\ nodes[lastOp.node].returnType = <<>>
        /\ nodes[lastOp.node].params =
             <<[type |-> <<>>, name |-> <<BoundSignature[3]>>, defaultValue |-> <<>>]>>

\* "bar(x)" was bound to a method declared with two parameters.
C9_Witness ==
    /\ SignatureBound /\ BoundSignature = SigBare
    /\ lastOp.kind = "FunctionDeclaration"
    /\ Len(nodes[lastOp.node].params) = 1

\* ------------------------------------------------------------ the metacommand interpreter (MetaSpec)
\* The last step bound a comment to a node and ran its metacommands on it.
CommentBound == lastOp.applied /\ IsValid(lastOp.bound)

\* The metacommands of the bound comment, in the order they were applied.
BoundCommands == {lastOp.doc.commands[i] : i \in 1..Len(lastOp.doc.commands)}

Warned(kind, arg) ==
    \E i \in 1..Len(lastOp.warnings) : lastOp.warnings[i] = Warning(kind, arg)

\* The comment names the node it is bound to as the node's own base.
InheritsItself ==
    /\ CommentBound
    /\ \E c \in BoundCommands : c.name = "qmlinherits"
                                /\ c.args[1] = nodes[lastOp.node].name

PreconditionFails(c, n) ==
    \/ c.name \in {"abstract", "qmlabstract", "qmlinherits"} /\ ~IsQmlType(nodes, n)
    \/ c.name \in {"default", "qmlenumeratorsfrom", "qmlrequired"}
       /\ ~IsQmlProperty(nodes, n)

\* C12: every metacommand whose node-kind precondition fails gives a warning
\* that carries the command's name, and the other commands of the comment are
\* still applied (seen here on \since, \wrapper and \qmlreadonly).
C12_PreconditionFailureWarned ==
    CommentBound =>
      \A c \in BoundCommands :
        PreconditionFails(c, lastOp.node) =>
          /\ \E i \in 1..Len(lastOp.warnings) : lastOp.warnings[i].arg = c.name
          /\ \A o \in BoundCommands :
               /\ o.name = "since" => nodes[lastOp.node].since = o.args[1]
               /\ o.name = "wrapper" => nodes[lastOp.node].wrapper
               /\ o.name = "qmlreadonly" => nodes[lastOp.node].readOnly

StatusOf(name) ==
    CASE name = "internal" -> "Internal"
      [] name = "obsolete" -> "Deprecated"
      [] name = "preliminary" -> "Preliminary"

StatusCommands == {"internal", "obsolete", "preliminary"}

\* Where the status commands stand in the order the comment's metacommands
\* were applied.
StatusIndexes ==
    {i \in 1..Len(lastOp.doc.commands) : lastOp.doc.commands[i].name \in StatusCommands}

\* C20: after a comment with status commands, the node's status is that of
\* the status command applied last.
C20_LastStatusWins ==
    (CommentBound /\ StatusIndexes # {}) =>
        nodes[lastOp.node].status =
            StatusOf(lastOp.doc.commands[MaxOf(StatusIndexes)].name)

\* Two status commands of different status were applied to one node.
C20_Witness ==
    /\ CommentBound
    /\ Cardinality(StatusIndexes) = 2
    /\ nodes[lastOp.node].status = "Preliminary"
    /\ lastOp.doc.commands[1].name = "internal"

\* The module the bound comment names with \inqmlmodule, or none.
DeclaredModule(doc) ==
    IF \E i \in 1..Len(doc.commands) : doc.commands[i].name = "inqmlmodule" THEN "M"
    ELSE ""

\* The type nodes of the file's name the repository ns holds in module qmid.
TypesNamed(ns, qmid) ==
    {n \in 1..Len(ns) : ns[n].kind = "QmlType" /\ ns[n].name = m_name
                        /\ ns[n].module = qmid}

\* The step is the visit of a top-level object that found a comment.
TypeBound ==
    /\ lastOp'.kind = "ObjectDefinition" /\ lastOp'.op = "visit"
    /\ lastOp'.applied /\ IsValid(lastOp'.bound)

\* C14: when a top-level object finds a comment, a type node is created only
\* if the repository holds no type of the file's name in the module the
\* comment's \inqmlmodule names (the empty module without one); when it holds
\* one, the documentation goes to that node and no node is created.
C14_TypeCreatedOnlyIfNotFound ==
    [][TypeBound =>
         IF TypesNamed(nodes, DeclaredModule(lastOp'.doc)) = {}
         THEN /\ Len(nodes') = Len(nodes) + 1
              /\ lastOp'.node = Len(nodes')
         ELSE /\ Len(nodes') = Len(nodes)
              /\ lastOp'.node \in TypesNamed(nodes, DeclaredModule(lastOp'.doc))
              /\ nodes'[lastOp'.node].doc = lastOp'.bound.begin]_vars

\* A comment with \inqmlmodule was bound to the type the repository already
\* held in that module.
C14_Witness ==
    /\ CommentBound /\ lastOp.kind = "ObjectDefinition"
    /\ HasCommand(lastOp.doc, "inqmlmodule")
    /\ ~lastOp.created
    /\ Len(nodes) = 1

\* C17: after the visit of a top-level object definition, the type node's
\* base-type name is the declared, dot-joined type name when the node carries
\* documentation, a \qmlinherits of the comment notwithstanding, and is unset
\* when it carries none.
C17_DeclaredBaseIffDocumented ==
    (lastOp.kind = "ObjectDefinition" /\ lastOp.op = "visit" /\ lastOp.applied) =>
        /\ nodes[lastOp.node].doc # 0 => nodes[lastOp.node].baseName = lastOp.type
        /\ nodes[lastOp.node].doc = 0 => nodes[lastOp.node].baseName = ""
        /\ lastOp.type \in {"Item", "QtQuick.Item"}

\* A type declared QtQuick.Item whose comment says \qmlinherits Base.
C17_Witness ==
    /\ CommentBound /\ lastOp.kind = "ObjectDefinition"
    /\ \E c \in BoundCommands : c.name = "qmlinherits" /\ c.args[1] = "Base"
    /\ nodes[lastOp.node].baseName = "QtQuick.Item"

----------------------------------------------------------------------------
\* Claims about the nesting level, checked under Spec.

\* The object definitions and object bindings the walk is inside of.
OpenObjects == {i \in 1..Len(stack) : stack[i].kind \in {"ObjectDefinition", "ObjectBinding"}}

\* C19: in every state of a walk whose visits and end-visits are properly
\* nested, the nesting level is at least 0 and is the number of object
\* definitions and object bindings currently open; once the last construct has
\* been left it is 0 again.
C19_NestingLevelCountsOpenObjects ==
    /\ m_nestingLevel >= 0
    /\ m_nestingLevel = Cardinality(OpenObjects)
    /\ stack = <<>> => m_nestingLevel = 0

\* The walk has left an object binding that was nested in an object definition
\* and then left that definition too.
C19_Witness ==
    /\ stack = <<>>
    /\ m_nestingLevel = 0
    /\ \E b \in closed : b.kind = "ObjectBinding"
    /\ \E o \in closed : o.kind = "ObjectDefinition"

----------------------------------------------------------------------------
\* Claims about a construct no comment is found for, checked under Spec.

\* What a documentation block and its metacommands set on a node.
Documentation(node) ==
    <<node.doc, node.module, node.baseName, node.abstract, node.deprecated,
      node.status, node.since, node.wrapper, node.defaultValue, node.enumNode,
      node.groups, node.returnType>>

\* The step is a visit whose applyDocumentation found no preceding comment.
NoCommentFound ==
    lastOp'.op = "visit" /\ lastOp'.applied /\ ~IsValid(lastOp'.bound)

\* C18: when applyDocumentation finds no preceding comment, the used-comment
\* set and the cursor stay as they were, nothing is bound, no documentation and
\* no metacommand reaches any node and no warning is emitted; the node returned
\* is the one the visit passed, or for an object definition a new type node
\* named after the file under the current scope, and its location is the start
\* of the construct.
C18_NoCommentLeavesNodeBare ==
    [][NoCommentFound =>
         LET n == lastOp'.node
         IN  /\ m_usedComments' = m_usedComments
             /\ m_lastEndOffset' = m_lastEndOffset
             /\ binds' = binds
             /\ lastOp'.warnings = <<>>
             /\ Len(nodes') \in {Len(nodes), Len(nodes) + 1}
             /\ n \in 1..Len(nodes')
             /\ \A k \in 1..Len(nodes) : k # n => nodes'[k] = nodes[k]
             /\ nodes'[n].location = lastOp'.offset
             /\ Documentation(nodes'[n]) =
                    IF n <= Len(nodes) THEN Documentation(nodes[n])
                    ELSE Documentation(NewNode(nodes'[n].kind, m_current, ""))
             /\ lastOp'.kind = "ObjectDefinition" =>
                    /\ n = Len(nodes) + 1
                    /\ nodes'[n] = [NewQmlTypeNode(m_current, m_name) EXCEPT
                                       !.location = lastOp'.offset,
                                       !.title = m_name,
                                       !.importList = m_importList]]_vars

\* An object definition that starts after a comment that is no documentation
\* comment, or before every comment of the file: it got a bare type node.
C18_Witness ==
    /\ lastOp.op = "visit" /\ lastOp.applied /\ ~IsValid(lastOp.bound)
    /\ lastOp.kind = "ObjectDefinition"
    /\ lastOp.offset > 0
    /\ comments # <<>>
    /\ nodes[lastOp.node].location = lastOp.offset
    /\ nodes[lastOp.node].doc = 0

----------------------------------------------------------------------------
\* Claims about written signatures, checked under ParseSpec.

\* The topic bound is the text of a written signature.
WrittenBound == SignatureBound /\ \E w \in WrittenSignatures : Render(w) = BoundSignature

\* The written signature the bound topic is the text of.
Written == CHOOSE w \in WrittenSignatures : Render(w) = BoundSignature

\* The parameter list a written signature spells out.
WrittenParameterList(w) ==
    [i \in 1..Len(w.params) |->
        [type |-> w.params[i].type, name |-> <<ParameterNames[i]>>,
         defaultValue |-> w.params[i].defaultValue]]

HasDefault(w) == \E i \in 1..Len(w.params) : w.params[i].defaultValue # <<>>

\* C15: after a method or signal topic whose signature parses, the function
\* node's return type is the one written and its parameter list is exactly the
\* written one, in order, in place of the declaration's; after "()" the node
\* has no parameters.
C15_ParsedSignatureReplaces ==
    (WrittenBound /\ ~ParseFails(BoundSignature)) =>
        /\ nodes[lastOp.node].returnType = Written.returnType
        /\ nodes[lastOp.node].params = WrittenParameterList(Written)

\* C16: every default expression written in a parameter list, one that starts
\* with an opening parenthesis included, is captured whole, from the '=' to the
\* comma or closing parenthesis that ends the parameter, and the parse goes on
\* from there: the parse succeeds and every parameter written is stored with
\* the default written for it.
C16_DefaultCapturedWhole ==
    (WrittenBound /\ HasDefault(Written)) =>
        /\ ~ParseFails(BoundSignature)
        /\ nodes[lastOp.node].params = WrittenParameterList(Written)

----------------------------------------------------------------------------
\* Claims about the recursion-depth error, checked under DepthSpec.

\* C13: once the recursion-depth error flag is set, no later visit of the walk
\* creates a node, binds a comment or attaches documentation to a node, and
\* the flag stays set, so hasError() is true from then on.
C13_NothingDocumentedAfterError ==
    [][HasError =>
         /\ HasError'
         /\ Len(nodes') = Len(nodes)
         /\ binds' = binds
         /\ m_usedComments' = m_usedComments
         /\ \A n \in 1..Len(nodes) : nodes'[n].doc = nodes[n].doc]_vars

----------------------------------------------------------------------------
\* Claims about nested function declarations, checked under Spec.

\* The step is the visit of a function declaration.
FunctionVisit == lastOp'.op = "visit" /\ lastOp'.kind = "FunctionDeclaration"

\* The step creates a node or binds a comment.
Documents ==
    \/ Len(nodes') > Len(nodes)
    \/ binds' # binds
    \/ m_usedComments' # m_usedComments

\* C21: a method node is created, and a comment bound, only for a function
\* declaration that is a direct member of the top-level object; one declared
\* in the body of another function or of a script binding creates no node and
\* binds no comment.
C21_OnlyDirectMemberFunctions ==
    [][FunctionVisit /\ Documents
          => Len(stack) = 1 /\ Top = "ObjectDefinition"]_vars

----------------------------------------------------------------------------
\* Claims about property topics, checked under BindSpec.

\* The last step bound a comment with a property topic that parsed.
PropertyTopicBound ==
    /\ lastOp.applied /\ IsValid(lastOp.bound)
    /\ \E i \in 1..Len(lastOp.doc.topics) :
         EndsWithProperty(lastOp.doc.topics[i].topic) /\ lastOp.doc.topics[i].parsed

\* C22: applyDocumentation handles a property topic only against a primary
\* node that is a property node, never against a type node or a function
\* node, and every property node lies under a type node.
C22_PropertyTopicsOnlyOnProperties ==
    /\ PropertyTopicBound => IsQmlProperty(nodes, lastOp.node)
    /\ \A n \in 1..Len(nodes) :
         IsQmlProperty(nodes, n) => IsQmlType(nodes, nodes[n].parent)

----------------------------------------------------------------------------
\* Claims about two visitors on one repository, checked under RaceSpec.

\* C23: when the applyDocumentation calls of two visitors for the same module
\* and type name interleave, at most one of them creates a type node: the
\* lookup and the creation of one are not separated by the lookup of the
\* other so that both create.
C23_AtMostOneTypeCreated ==
    \A f, g \in Files :
       (f # g /\ Qmid(visitors[f].doc) = Qmid(visitors[g].doc))
           => ~(visitors[f].created /\ visitors[g].created)

=============================================================================
